---- MODULE Spec2Model ----
(***************************************************************************)
(* Model of the three FUSE providers of wrenchfs:                          *)
(*   HelloFS   (src/hello_fs.py)   one synthetic read-only file            *)
(*   FormatFS  (src/format_fs.py)  one synthetic file, several formats     *)
(*   WrenchFS  (src/wrench_fs.py)  credential-gated passthrough            *)
(* Three specifications share the variables:                               *)
(*   SpecVirtual  calls on the two synthetic providers                     *)
(*   SpecGate     construction of WrenchFS and its structural operations   *)
(*   SpecRW       concurrent read/write calls of WrenchFS under rwlock     *)
(*   FairSpecRW   SpecRW with fair scheduling of the calls in flight       *)
(***************************************************************************)
EXTENDS Integers, Sequences, FiniteSets, TLC

VARIABLES
    vcall,    \* the last call made on a synthetic provider
    vres,     \* what that call returned or raised
    gate,     \* WrenchFS process: "unstarted", "serving" or "failed"
    entry,    \* how WrenchFS was constructed: "none", "main" or "direct"
    password, \* the credential given
    root,     \* self.root ("" while unset)
    initExc,  \* the exception construction raised ("" for none)
    fs,       \* backing filesystem namespace: absolute path -> kind of entry
    prim,     \* the last backing primitive called, with its path operands
    files,    \* content of the regular files under the root, by name
    fdt,      \* the process's file descriptor table
    rwlock,   \* holder of self.rwlock (0 = unlocked)
    pc,       \* position of each thread inside read/write
    call,     \* the call each thread is serving
    outcome,  \* how each thread's last call ended
    seqfiles, \* content the files have had the transfers so far, in the
              \* order they happened, each been made at its call's offset
    budget    \* requests the runtime may still dispatch

vvars == <<vcall, vres>>
gvars == <<gate, entry, password, root, initExc, fs, prim>>
rvars == <<files, fdt, rwlock, pc, call, outcome, seqfiles, budget>>
vars  == <<vcall, vres, gate, entry, password, root, initExc, fs, prim,
           files, fdt, rwlock, pc, call, outcome, seqfiles, budget>>

Min(a, b) == IF a < b THEN a ELSE b

Max(a, b) == IF a > b THEN a ELSE b

(***************************************************************************)
(* Python primitives used by the providers.                                *)
(***************************************************************************)

\* a & b on non-negative integers
RECURSIVE BitAnd(_, _)
BitAnd(a, b) ==
    IF a = 0 \/ b = 0 THEN 0
    ELSE (a % 2) * (b % 2) + 2 * BitAnd(a \div 2, b \div 2)

\* a | b on non-negative integers
RECURSIVE BitOr(_, _)
BitOr(a, b) ==
    IF a = 0 THEN b
    ELSE IF b = 0 THEN a
    ELSE Max(a % 2, b % 2) + 2 * BitOr(a \div 2, b \div 2)

\* s[a:b] for a, b >= 0: both ends are clamped to len(s)
PySlice(s, a, b) ==
    LET lo == Min(a, Len(s))
        hi == Min(b, Len(s))
    IN  IF lo >= hi THEN SubSeq(s, 1, 0) ELSE SubSeq(s, lo + 1, hi)

\* os.O_RDONLY, os.O_WRONLY, os.O_RDWR (Linux)
O_RDONLY == 0

O_WRONLY == 1

O_RDWR == 2

Returned(v) == [tag |-> "ok", exc |-> "", errno |-> "", val |-> v]

Raised(e, n) == [tag |-> "raise", exc |-> e, errno |-> n, val |-> 0]

(***************************************************************************)
(* HelloFS                                                                 *)
(***************************************************************************)

hello_path == "/hello"

hello_str == "Hello, World!\n"

HelloGetattr(path) ==
    IF path = "/"
    THEN Returned([st_mode |-> BitOr(493, 16384), st_nlink |-> 2])
    ELSE IF path = hello_path
    THEN Returned([st_mode |-> BitOr(292, 32768), st_nlink |-> 1,
                   st_size |-> Len(hello_str)])
    ELSE Raised("FuseOSError", "ENOENT")

HelloReaddir(path) ==
    IF path = "/"
    THEN Returned(<<".", "..", PySlice(hello_path, 1, Len(hello_path))>>)
    ELSE Raised("FuseOSError", "ENOENT")

HelloOpen(path, flags) ==
    IF path # hello_path
    THEN Raised("FuseOSError", "ENOENT")
    ELSE LET allowed_flags == BitOr(BitOr(O_RDONLY, O_WRONLY), O_RDWR)
         IN  IF BitAnd(flags, allowed_flags) # O_RDONLY
             THEN Raised("FuseOSError", "EPERM")
             ELSE Returned(0)

HelloRead(path, size, offset) ==
    IF path # hello_path
    THEN Raised("FuseOSError", "ENOENT")
    ELSE Returned(PySlice(hello_str, offset, offset + size))

(***************************************************************************)
(* FormatFS                                                                *)
(***************************************************************************)

content_by_format ==
    [csv  |-> "greeting,recipient\nHello,World!\n",
     txt  |-> "Hello, World!\n",
     json |-> "{\"message\": \"Hello, World!\"}\n",
     xml  |-> "<message>Hello, World!</message>\n"]

default_format == "txt"

\* len(path) > 7 and path[0:len(hello_path + '.')] == hello_path + '.'
HasDottedPrefix(path) ==
    /\ Len(path) > 7
    /\ PySlice(path, 0, Len(hello_path \o ".")) = hello_path \o "."

\* getattr that answers every dotted path with the default format's size
FormatGetattrDefaultSize(path) ==
    IF path = "/"
    THEN Returned([st_mode |-> BitOr(493, 16384), st_nlink |-> 2])
    ELSE IF path = hello_path \/ HasDottedPrefix(path)
    THEN Returned([st_mode |-> BitOr(292, 32768), st_nlink |-> 1,
                   st_size |-> Len(content_by_format[default_format])])
    ELSE Raised("FuseOSError", "ENOENT")

FormatGetattr(path) ==
    IF path = "/"
    THEN Returned([st_mode |-> BitOr(493, 16384), st_nlink |-> 2])
    ELSE IF path = hello_path
    THEN Returned([st_mode |-> BitOr(292, 32768), st_nlink |-> 1,
                   st_size |-> Len(content_by_format[default_format])])
    ELSE IF /\ HasDottedPrefix(path)
            /\ \E ext \in DOMAIN content_by_format :
                   path = hello_path \o "." \o ext
    THEN LET ext == CHOOSE e \in DOMAIN content_by_format :
                        path = hello_path \o "." \o e
         IN  Returned([st_mode |-> BitOr(292, 32768), st_nlink |-> 1,
                       st_size |-> Len(content_by_format[ext])])
    ELSE Raised("FuseOSError", "ENOENT")

\* readdir that lists one name per registered format and answers any path
FormatReaddirListsFormats(path) ==
    Returned(<<".", "..", "hello", "hello.csv", "hello.txt",
               "hello.json", "hello.xml">>)

FormatReaddir(path) ==
    IF path = "/"
    THEN Returned(<<".", "..", PySlice(hello_path, 1, Len(hello_path))>>)
    ELSE Raised("FileNotFoundError", "")

FormatOpen(path, flags) ==
    IF path # hello_path
    THEN Raised("FileNotFoundError", "")
    ELSE LET allowed_flags == BitOr(BitOr(O_RDONLY, O_WRONLY), O_RDWR)
         IN  IF BitAnd(flags, allowed_flags) # O_RDONLY
             THEN Raised("PermissionError", "")
             ELSE Returned(0)

\* read that serves the default format for an unknown extension
FormatReadFallsBack(path, size, offset) ==
    IF path = hello_path
    THEN Returned(content_by_format[default_format])
    ELSE IF HasDottedPrefix(path)
    THEN LET ext == PySlice(path, Len(hello_path \o "."), Len(path))
         IN  IF ext \notin DOMAIN content_by_format
             THEN Returned(content_by_format[default_format])
             ELSE Returned(content_by_format[ext])
    ELSE Raised("FuseOSError", "ENOENT")

FormatRead(path, size, offset) ==
    IF path = hello_path
    THEN Returned(content_by_format[default_format])
    ELSE IF HasDottedPrefix(path)
    THEN LET ext == PySlice(path, Len(hello_path \o "."), Len(path))
         IN  IF ext \notin DOMAIN content_by_format
             THEN Raised("FuseOSError", "ENOENT")
             ELSE Returned(content_by_format[ext])
    ELSE Raised("FuseOSError", "ENOENT")

(***************************************************************************)
(* Calls on the synthetic providers.                                       *)
(***************************************************************************)

MaxOffset == 15

MaxSize == 15

Offsets == 0 .. MaxOffset

Sizes == 0 .. MaxSize

Formats == DOMAIN content_by_format

BadSuffixes == {"", "TXT", "Txt", "txt2", "tx", "xm", "yaml", "txt.", "jsonx"}

Paths ==
    {"/", "", "/hello", "/hello2", "/hellO", "/Hello", "/hell", "/hello/",
     "/hellotxt", "/other", "/other.txt"}
    \cup {hello_path \o "." \o f : f \in Formats}
    \cup {hello_path \o "." \o s : s \in BadSuffixes}

\* access mode in the two low bits, with and without other flag bits
\* (O_CREAT 64, O_TRUNC 512, O_APPEND 1024, O_LARGEFILE 32768)
Flags == {a + b : a \in 0 .. 3, b \in {0, 64, 512, 576, 1024, 32768}}

Providers == {"HelloFS", "FormatFS"}

VCall(p, o, path, size, offset, flags) ==
    [provider |-> p, op |-> o, path |-> path, size |-> size,
     offset |-> offset, flags |-> flags]

\* the requests the runtime may make of a synthetic provider
Requests ==
    {VCall(p, o, path, 0, 0, 0) :
        p \in Providers, o \in {"getattr", "readdir"}, path \in Paths}
    \cup {VCall(p, "open", path, 0, 0, flags) :
        p \in Providers, path \in Paths, flags \in Flags}
    \cup {VCall(p, "read", path, size, offset, 0) :
        p \in Providers, path \in Paths, size \in Sizes, offset \in Offsets}

Pending == [tag |-> "pending", exc |-> "", errno |-> "", val |-> 0]

\* a request has arrived and is not answered yet
InitVirtual ==
    /\ vcall \in Requests
    /\ vres = Pending

Arrived(p, o) ==
    /\ vres = Pending
    /\ vcall.provider = p
    /\ vcall.op = o
    /\ UNCHANGED <<vcall, gvars, rvars>>

CallHelloGetattr ==
    /\ Arrived("HelloFS", "getattr")
    /\ vres' = HelloGetattr(vcall.path)

CallHelloReaddir ==
    /\ Arrived("HelloFS", "readdir")
    /\ vres' = HelloReaddir(vcall.path)

CallHelloOpen ==
    /\ Arrived("HelloFS", "open")
    /\ vres' = HelloOpen(vcall.path, vcall.flags)

CallHelloRead ==
    /\ Arrived("HelloFS", "read")
    /\ vres' = HelloRead(vcall.path, vcall.size, vcall.offset)

CallFormatGetattr ==
    /\ Arrived("FormatFS", "getattr")
    /\ vres' = FormatGetattr(vcall.path)

CallFormatReaddir ==
    /\ Arrived("FormatFS", "readdir")
    /\ vres' = FormatReaddir(vcall.path)

CallFormatOpen ==
    /\ Arrived("FormatFS", "open")
    /\ vres' = FormatOpen(vcall.path, vcall.flags)

CallFormatRead ==
    /\ Arrived("FormatFS", "read")
    /\ vres' = FormatRead(vcall.path, vcall.size, vcall.offset)

NextVirtual ==
    \/ CallHelloGetattr
    \/ CallHelloReaddir
    \/ CallHelloOpen
    \/ CallHelloRead
    \/ CallFormatGetattr
    \/ CallFormatReaddir
    \/ CallFormatOpen
    \/ CallFormatRead

(***************************************************************************)
(* WrenchFS: the access gate and the structural operations.                *)
(***************************************************************************)

\* the working directory the process is started in
Cwd == "/srv"

\* os.path.realpath of a relative path (no symbolic links on the way)
realpath(rel) == Cwd \o PySlice(rel, 1, Len(rel))

Benign == realpath("./benign")

Secret == realpath("./secret")

\* paths as the runtime hands them to the provider, relative to the mount
Names == {"/a", "/b"}

\* what a symbolic link may be made to hold
LinkTexts == {"/b", "a"}

\* the part of the backing filesystem the model follows: the two trees and
\* the entries of the same names directly under /
AbsPaths == {r \o n : r \in {Benign, Secret}, n \in Names} \cup Names

Absent == [kind |-> "absent", to |-> ""]

File == [kind |-> "file", to |-> ""]

Dir == [kind |-> "dir", to |-> ""]

Symlink(text) == [kind |-> "symlink", to |-> text]

FS0 ==
    [p \in AbsPaths |->
        IF p \in {Benign \o "/a", Secret \o "/a", "/b"} THEN File ELSE Absent]

NoPrim == [op |-> "", paths |-> <<>>]

\* what may be typed at the prompt: the two accepted credentials and others
Passwords == {"password1", "supersecret", "password2", "wrong"}

Mounts == {"/mnt/w"}

\* WrenchFS(*args): Python binds the positional arguments to
\* (password, mount) before the body of __init__ runs
WrenchFSInit(args) ==
    IF Len(args) # 2
    THEN [gate |-> "failed", root |-> "", exc |-> "TypeError"]
    ELSE IF args[1] = "password1"
    THEN [gate |-> "serving", root |-> Benign, exc |-> ""]
    ELSE IF args[1] = "supersecret"
    THEN [gate |-> "serving", root |-> Secret, exc |-> ""]
    ELSE [gate |-> "failed", root |-> "", exc |-> "ValueError"]

InitGate ==
    /\ gate = "unstarted"
    /\ entry = "none"
    /\ password = ""
    /\ root = ""
    /\ initExc = ""
    /\ fs = FS0
    /\ prim = NoPrim

\* the script: WrenchFS(password) with the credential read from the prompt
Main ==
    \E pw \in Passwords :
        /\ gate = "unstarted"
        /\ LET r == WrenchFSInit(<<pw>>)
           IN  /\ gate' = r.gate
               /\ root' = r.root
               /\ initExc' = r.exc
        /\ entry' = "main"
        /\ password' = pw
        /\ UNCHANGED <<fs, prim, vvars, rvars>>

\* a caller that instantiates the class as __init__ declares it
Construct ==
    \E pw \in Passwords, mount \in Mounts :
        /\ gate = "unstarted"
        /\ LET r == WrenchFSInit(<<pw, mount>>)
           IN  /\ gate' = r.gate
               /\ root' = r.root
               /\ initExc' = r.exc
        /\ entry' = "direct"
        /\ password' = pw
        /\ UNCHANGED <<fs, prim, vvars, rvars>>

\* __call__: the first path operand of every operation is prefixed
Rewrite(path) == root \o path

\* the entry a path names once a symbolic link in its last component has
\* been followed (one level; a relative text is taken in the link's directory)
Follow(p) ==
    IF p \in AbsPaths /\ fs[p].kind = "symlink"
    THEN IF PySlice(fs[p].to, 0, 1) = "/"
         THEN fs[p].to
         ELSE PySlice(p, 0, Len(p) - 1) \o fs[p].to
    ELSE p

\* os.open(p, O_WRONLY | O_CREAT | O_TRUNC, mode)
OsCreate(p) ==
    LET q == Follow(p)
    IN  /\ prim' = [op |-> "open", paths |-> <<p>>]
        /\ fs' = IF q \in AbsPaths /\ fs[q].kind \in {"absent", "file"}
                 THEN [fs EXCEPT ![q] = File]
                 ELSE fs

\* os.mkdir(p, mode)
OsMkdir(p) ==
    /\ prim' = [op |-> "mkdir", paths |-> <<p>>]
    /\ fs' = IF fs[p].kind = "absent" THEN [fs EXCEPT ![p] = Dir] ELSE fs

\* os.mknod(p, mode, dev)
OsMknod(p) ==
    /\ prim' = [op |-> "mknod", paths |-> <<p>>]
    /\ fs' = IF fs[p].kind = "absent" THEN [fs EXCEPT ![p] = File] ELSE fs

\* os.unlink(p)
OsUnlink(p) ==
    /\ prim' = [op |-> "unlink", paths |-> <<p>>]
    /\ fs' = IF fs[p].kind \in {"file", "symlink"}
             THEN [fs EXCEPT ![p] = Absent]
             ELSE fs

\* os.rmdir(p)
OsRmdir(p) ==
    /\ prim' = [op |-> "rmdir", paths |-> <<p>>]
    /\ fs' = IF fs[p].kind = "dir" THEN [fs EXCEPT ![p] = Absent] ELSE fs

\* os.rename(src, dst)
OsRename(src, dst) ==
    /\ prim' = [op |-> "rename", paths |-> <<src, dst>>]
    /\ fs' = IF /\ src \in AbsPaths
                /\ dst \in AbsPaths
                /\ src # dst
                /\ fs[src].kind # "absent"
                /\ \/ fs[dst].kind = "absent"
                   \/ fs[src].kind = "dir" /\ fs[dst].kind = "dir"
                   \/ fs[src].kind # "dir" /\ fs[dst].kind # "dir"
             THEN [fs EXCEPT ![dst] = fs[src], ![src] = Absent]
             ELSE fs

\* os.link(src, dst)
OsLink(src, dst) ==
    /\ prim' = [op |-> "link", paths |-> <<src, dst>>]
    /\ fs' = IF /\ src \in AbsPaths
                /\ dst \in AbsPaths
                /\ fs[src].kind \in {"file", "symlink"}
                /\ fs[dst].kind = "absent"
             THEN [fs EXCEPT ![dst] = fs[src]]
             ELSE fs

\* os.symlink(text, dst): text is what the link holds, dst the entry made
OsSymlink(text, dst) ==
    /\ prim' = [op |-> "symlink", paths |-> <<dst>>]
    /\ fs' = IF fs[dst].kind = "absent"
             THEN [fs EXCEPT ![dst] = Symlink(text)]
             ELSE fs

\* a primitive that changes an entry's content or attributes, not the names
OsTouch(op, p) ==
    /\ prim' = [op |-> op, paths |-> <<p>>]
    /\ fs' = fs

Serving ==
    /\ gate = "serving"
    /\ UNCHANGED <<gate, entry, password, root, initExc, vvars, rvars>>

Create ==
    \E path \in Names : Serving /\ OsCreate(Rewrite(path))

Mkdir ==
    \E path \in Names : Serving /\ OsMkdir(Rewrite(path))

Mknod ==
    \E path \in Names : Serving /\ OsMknod(Rewrite(path))

Unlink ==
    \E path \in Names : Serving /\ OsUnlink(Rewrite(path))

Rmdir ==
    \E path \in Names : Serving /\ OsRmdir(Rewrite(path))

\* def rename(self, old, new): old arrives rewritten by __call__, new as
\* the runtime gave it
RenameMethod(old, new) == OsRename(old, new)

Rename ==
    \E old \in Names, new \in Names :
        Serving /\ RenameMethod(Rewrite(old), new)

\* def link(self, target, source): target arrives rewritten by __call__
LinkMethod(target, source) == OsLink(root \o source, target)

Link ==
    \E target \in Names, source \in Names :
        Serving /\ LinkMethod(Rewrite(target), source)

\* def symlink(self, target, source)
SymlinkMethod(target, source) == OsSymlink(source, target)

SymlinkOp ==
    \E target \in Names, source \in LinkTexts :
        Serving /\ SymlinkMethod(Rewrite(target), source)

Truncate ==
    \E path \in Names : Serving /\ OsTouch("truncate", Rewrite(path))

Chmod ==
    \E path \in Names : Serving /\ OsTouch("chmod", Rewrite(path))

Chown ==
    \E path \in Names : Serving /\ OsTouch("chown", Rewrite(path))

Utimens ==
    \E path \in Names : Serving /\ OsTouch("utime", Rewrite(path))

NextGate ==
    \/ Main
    \/ Construct
    \/ Create
    \/ Mkdir
    \/ Mknod
    \/ Unlink
    \/ Rmdir
    \/ Rename
    \/ Link
    \/ SymlinkOp
    \/ Truncate
    \/ Chmod
    \/ Chown
    \/ Utimens

(***************************************************************************)
(* WrenchFS: read and write under rwlock, served by concurrent threads.    *)
(***************************************************************************)

NumThreads == 2

MaxFd == 2

MaxCalls == 2

MaxFileOffset == 1

Threads == 1 .. NumThreads

Fds == 1 .. MaxFd

\* what a write call carries
Payload(t) == <<7>>

\* the size of every read call
ReadSize == Len(Payload(1))

Closed == [open |-> FALSE, name |-> "", pos |-> 0, acc |-> 0]

ReadCalls ==
    {[op |-> "read", fh |-> fh, offset |-> off] :
        fh \in Fds, off \in 0 .. MaxFileOffset}

WriteCalls ==
    {[op |-> "write", fh |-> fh, offset |-> off] :
        fh \in Fds, off \in 0 .. MaxFileOffset}

NoRW == [op |-> "", fh |-> 0, offset |-> 0]

NoOutcome == [status |-> "", val |-> <<>>, want |-> <<>>]

Files0 == [n \in Names |-> IF n = "/a" THEN <<1, 2>> ELSE <<>>]

Opened(path, flags) ==
    [open |-> TRUE, name |-> path, pos |-> 0, acc |-> flags]

\* the handles the runtime holds when the requests of the model begin: the
\* first file opened for reading and writing, the second for writing
Fdt0 ==
    [fd \in Fds |->
        IF fd = 1 THEN Opened("/a", O_RDWR)
        ELSE IF fd = 2 THEN Opened("/b", O_WRONLY)
        ELSE Closed]

InitRW ==
    /\ files = Files0
    /\ seqfiles = Files0
    /\ fdt = Fdt0
    /\ rwlock = 0
    /\ pc = [t \in Threads |-> "idle"]
    /\ call = [t \in Threads |-> NoRW]
    /\ outcome = [t \in Threads |-> NoOutcome]
    /\ budget = MaxCalls

\* the state WrenchFS('password1', mount) leaves
InitServing ==
    /\ gate = "serving"
    /\ entry = "direct"
    /\ password = "password1"
    /\ root = Benign
    /\ initExc = ""
    /\ fs = [p \in AbsPaths |->
                IF p \in {Benign \o n : n \in Names} \cup {Secret \o "/a"}
                THEN File ELSE Absent]
    /\ prim = NoPrim

\* content after bytes are written at position pos (0-based); a gap between
\* the end of the file and pos reads as zeros
WriteAt(content, pos, bytes) ==
    [i \in 1 .. Max(Len(content), pos + Len(bytes)) |->
        IF i > pos /\ i <= pos + Len(bytes) THEN bytes[i - pos]
        ELSE IF i <= Len(content) THEN content[i]
        ELSE 0]

InFlight(fh) == \E t \in Threads : pc[t] # "idle" /\ call[t].fh = fh

\* open = os.open, on the rewritten path: the lowest free descriptor
Open(path, flags) ==
    /\ \E fd \in Fds : ~fdt[fd].open
    /\ fs[Rewrite(path)].kind = "file"
    /\ LET fd == CHOOSE d \in Fds :
                    ~fdt[d].open /\ \A e \in Fds : ~fdt[e].open => d <= e
       IN  fdt' = [fdt EXCEPT ![fd] = Opened(path, flags)]
    /\ budget > 0
    /\ budget' = budget - 1
    /\ UNCHANGED <<files, seqfiles, rwlock, pc, call, outcome>>
    /\ UNCHANGED <<vvars, gvars>>

\* release: os.close(fh), once the runtime has no request left on the handle
Release(fh) ==
    /\ fdt[fh].open
    /\ ~InFlight(fh)
    /\ fdt' = [fdt EXCEPT ![fh] = Closed]
    /\ budget > 0
    /\ budget' = budget - 1
    /\ UNCHANGED <<files, seqfiles, rwlock, pc, call, outcome>>
    /\ UNCHANGED <<vvars, gvars>>

\* the runtime hands a read or write request to the first idle thread
Dispatch(t, c) ==
    /\ pc[t] = "idle"
    /\ \A u \in Threads : pc[u] = "idle" => t <= u
    /\ budget > 0
    /\ budget' = budget - 1
    /\ pc' = [pc EXCEPT ![t] = "acquire"]
    /\ call' = [call EXCEPT ![t] = c]
    /\ outcome' = [outcome EXCEPT ![t] = NoOutcome]
    /\ UNCHANGED <<files, seqfiles, fdt, rwlock>>
    /\ UNCHANGED <<vvars, gvars>>

\* entering the with block without waiting for the lock to be free
AcquireNoWait(t) ==
    /\ pc[t] = "acquire"
    /\ rwlock' = t
    /\ pc' = [pc EXCEPT ![t] = "lseek"]
    /\ UNCHANGED <<files, seqfiles, fdt, call, outcome, budget>>
    /\ UNCHANGED <<vvars, gvars>>

\* with self.rwlock: entry
Acquire(t) ==
    /\ pc[t] = "acquire"
    /\ rwlock = 0
    /\ rwlock' = t
    /\ pc' = [pc EXCEPT ![t] = "lseek"]
    /\ UNCHANGED <<files, seqfiles, fdt, call, outcome, budget>>
    /\ UNCHANGED <<vvars, gvars>>

\* os.lseek(fh, offset, 0)
Lseek(t) ==
    /\ pc[t] = "lseek"
    /\ LET c == call[t]
       IN  IF fdt[c.fh].open
           THEN /\ fdt' = [fdt EXCEPT ![c.fh].pos = c.offset]
                /\ pc' = [pc EXCEPT ![t] = "transfer"]
                /\ outcome' = outcome
           ELSE /\ fdt' = fdt
                /\ pc' = [pc EXCEPT ![t] = "exit"]
                /\ outcome' = [outcome EXCEPT ![t].status = "EBADF"]
    /\ UNCHANGED <<files, seqfiles, rwlock, call, budget>>
    /\ UNCHANGED <<vvars, gvars>>

\* os.read(fh, size)
OsRead(t) ==
    LET c == call[t]
        d == fdt[c.fh]
    IN  /\ c.op = "read"
        /\ IF d.open /\ d.acc \in {O_RDONLY, O_RDWR}
           THEN LET got == PySlice(files[d.name], d.pos, d.pos + ReadSize)
                IN  /\ fdt' = [fdt EXCEPT ![c.fh].pos = d.pos + Len(got)]
                    /\ outcome' = [outcome EXCEPT ![t] =
                          [status |-> "ok", val |-> got,
                           want |-> PySlice(files[d.name], c.offset,
                                            c.offset + ReadSize)]]
           ELSE /\ fdt' = fdt
                /\ outcome' = [outcome EXCEPT ![t].status = "EBADF"]
        /\ UNCHANGED <<files, seqfiles>>

\* os.write(fh, data): some non-empty prefix of data is transferred
OsWrite(t) ==
    LET c == call[t]
        d == fdt[c.fh]
    IN  /\ c.op = "write"
        /\ IF d.open /\ d.acc \in {O_WRONLY, O_RDWR}
           THEN \E k \in 1 .. Len(Payload(t)) :
                    LET bytes == SubSeq(Payload(t), 1, k)
                    IN  /\ files' = [files EXCEPT ![d.name] =
                                        WriteAt(@, d.pos, bytes)]
                        /\ seqfiles' = [seqfiles EXCEPT ![d.name] =
                                        WriteAt(@, c.offset, bytes)]
                        /\ fdt' = [fdt EXCEPT ![c.fh].pos = d.pos + k]
                        /\ outcome' = [outcome EXCEPT ![t] =
                              [status |-> "ok", val |-> <<k>>, want |-> <<k>>]]
           ELSE /\ fdt' = fdt
                /\ outcome' = [outcome EXCEPT ![t].status = "EBADF"]
                /\ UNCHANGED <<files, seqfiles>>

Transfer(t) ==
    /\ pc[t] = "transfer"
    /\ OsRead(t) \/ OsWrite(t)
    /\ pc' = [pc EXCEPT ![t] = "exit"]
    /\ UNCHANGED <<rwlock, call, budget>>
    /\ UNCHANGED <<vvars, gvars>>

\* leaving the block with the lock kept when an exception is on its way
WithExitKeepsLockOnError(t) ==
    /\ pc[t] = "exit"
    /\ rwlock' = IF rwlock = t /\ outcome[t].status = "ok" THEN 0 ELSE rwlock
    /\ pc' = [pc EXCEPT ![t] = "idle"]
    /\ call' = [call EXCEPT ![t] = NoRW]
    /\ outcome' = [outcome EXCEPT ![t] =
                      [status |-> @.status, val |-> <<>>, want |-> <<>>]]
    /\ UNCHANGED <<files, seqfiles, fdt, budget>>
    /\ UNCHANGED <<vvars, gvars>>

\* with self.rwlock: exit, by return or by exception
WithExit(t) ==
    /\ pc[t] = "exit"
    /\ rwlock' = IF rwlock = t THEN 0 ELSE rwlock
    /\ pc' = [pc EXCEPT ![t] = "idle"]
    /\ call' = [call EXCEPT ![t] = NoRW]
    /\ outcome' = [outcome EXCEPT ![t] =
                      [status |-> @.status, val |-> <<>>, want |-> <<>>]]
    /\ UNCHANGED <<files, seqfiles, fdt, budget>>
    /\ UNCHANGED <<vvars, gvars>>

OpenCall ==
    \E path \in Names, flags \in {O_RDONLY, O_WRONLY, O_RDWR} :
        Open(path, flags)

ReleaseCall == \E fh \in Fds : Release(fh)

ReadCall == \E t \in Threads, c \in ReadCalls : Dispatch(t, c)

WriteCall == \E t \in Threads, c \in WriteCalls : Dispatch(t, c)

AcquireStep == \E t \in Threads : Acquire(t)

LseekStep == \E t \in Threads : Lseek(t)

TransferStep == \E t \in Threads : Transfer(t)

ExitStep == \E t \in Threads : WithExit(t)

NextRW ==
    \/ OpenCall
    \/ ReleaseCall
    \/ ReadCall
    \/ WriteCall
    \/ AcquireStep
    \/ LseekStep
    \/ TransferStep
    \/ ExitStep

(***************************************************************************)
(* Specifications.                                                         *)
(***************************************************************************)

\* no request on the synthetic providers
IdleVirtual ==
    /\ vcall = VCall("", "", "", 0, 0, 0)
    /\ vres = Pending

InitSpecVirtual == InitVirtual /\ InitGate /\ InitRW

InitSpecGate == IdleVirtual /\ InitGate /\ InitRW

InitSpecRW == IdleVirtual /\ InitServing /\ InitRW

SpecVirtual == InitSpecVirtual /\ [][NextVirtual]_vars

SpecGate == InitSpecGate /\ [][NextGate]_vars

SpecRW == InitSpecRW /\ [][NextRW]_vars

\* every thread inside a call keeps running, and a thread waiting for the
\* lock takes it once the lock stays free (the runtime dispatches a bounded
\* number of requests, so the other threads stop taking it)
FairSpecRW ==
    /\ SpecRW
    /\ \A t \in Threads :
          WF_vars(Acquire(t) \/ Lseek(t) \/ Transfer(t) \/ WithExit(t))

(***************************************************************************)
(* Vocabulary of the properties.                                           *)
(***************************************************************************)

\* the error kind an exception is reported as
ErrorKind(r) ==
    IF r.tag # "raise" THEN "none"
    ELSE IF r.exc = "FuseOSError" /\ r.errno = "ENOENT" THEN "NotFound"
    ELSE IF r.exc = "FileNotFoundError" THEN "NotFound"
    ELSE IF r.exc = "FuseOSError" /\ r.errno = "EACCES" THEN "PermissionDenied"
    ELSE IF r.exc = "PermissionError" THEN "PermissionDenied"
    ELSE IF r.exc = "FuseOSError" /\ r.errno = "EPERM" THEN "NotPermitted"
    ELSE "other"

Answered == vres.tag # "pending"

\* the paths that name a registered format
FormatPaths == {hello_path \o "." \o f : f \in Formats}

\* the payload a synthetic path selects
SelectedPayload(provider, path) ==
    IF provider = "HelloFS" \/ path = hello_path
    THEN IF provider = "HelloFS" THEN hello_str
         ELSE content_by_format[default_format]
    ELSE content_by_format[PySlice(path, Len(hello_path) + 1, Len(path))]

\* a path that starts like the base path and is neither it nor a
\* registered format of it
Unregistered(path) ==
    /\ PySlice(path, 0, Len(hello_path)) = hello_path
    /\ path # hello_path
    /\ path \notin FormatPaths

\* the access mode bits of open's flags
AccMode(flags) == BitAnd(flags, 3)

\* st_mode says regular file (S_IFMT = 0o170000, S_IFREG = 0o100000)
IsRegular(r) ==
    /\ r.tag = "ok"
    /\ BitAnd(r.val.st_mode, 61440) = 32768

\* a path inside the tree the provider serves
UnderRoot(p) == PySlice(p, 0, Len(root) + 1) = root \o "/"

\* the threads between lseek and the end of the with block
InSection == {t \in Threads : pc[t] \in {"lseek", "transfer", "exit"}}

(***************************************************************************)
(* C1: on both synthetic providers, a read that succeeds returns exactly   *)
(* payload[offset : offset+size] of the payload the path selects (empty    *)
(* once offset >= len(payload)).                                           *)
(***************************************************************************)
C1_ReadSlices ==
    (Answered /\ vcall.op = "read" /\ vres.tag = "ok") =>
        vres.val = PySlice(SelectedPayload(vcall.provider, vcall.path),
                           vcall.offset, vcall.offset + vcall.size)

(***************************************************************************)
(* C2: in FormatFS, getattr and read of '/hello.' + s for s no exact key,  *)
(* and of any other path that merely starts with '/hello', raise ENOENT    *)
(* and never answer with the default format.                               *)
(***************************************************************************)
C2_UnknownSuffixNotFound ==
    (/\ Answered
     /\ vcall.provider = "FormatFS"
     /\ vcall.op \in {"getattr", "read"}
     /\ Unregistered(vcall.path)) =>
        /\ vres.tag = "raise"
        /\ vres.exc = "FuseOSError"
        /\ vres.errno = "ENOENT"

C2_Witness ==
    /\ Answered
    /\ vcall.provider = "FormatFS"
    /\ vcall.op = "read"
    /\ vcall.path = "/hello.TXT"
    /\ vres.errno = "ENOENT"

(***************************************************************************)
(* C3: every path operand that names an entry and reaches a backing        *)
(* primitive lies under the selected root, and no entry outside the root   *)
(* is ever created, removed, renamed or overwritten.                       *)
(***************************************************************************)
C3_AllOperandsRewritten ==
    gate = "serving" =>
        /\ \A i \in DOMAIN prim.paths : UnderRoot(prim.paths[i])
        /\ \A p \in AbsPaths : ~UnderRoot(p) => fs[p] = FS0[p]

(***************************************************************************)
(* C4: started with 'password1' the provider serves ./benign, with         *)
(* 'supersecret' ./secret; any other credential fails construction with    *)
(* the configuration error and selects no root; a serving provider's root  *)
(* is one of the two.                                                      *)
(***************************************************************************)
C4_GateSelectsRoot ==
    /\ (entry # "none" /\ password = "password1") =>
            (gate = "serving" /\ root = Benign)
    /\ (entry # "none" /\ password = "supersecret") =>
            (gate = "serving" /\ root = Secret)
    /\ (entry # "none" /\ password \notin {"password1", "supersecret"}) =>
            (gate = "failed" /\ initExc = "ValueError" /\ root = "")
    /\ gate = "serving" => root \in {Benign, Secret}

(***************************************************************************)
(* C5: at most one read/write call is between its lseek and the end of its *)
(* transfer, and it holds rwlock; a transfer happens at the offset of its  *)
(* own call; so every read returns the bytes at its offset and the files   *)
(* hold what the write calls, run one after another, would have left.      *)
(***************************************************************************)
C5_SeekTransferAtomic ==
    /\ Cardinality(InSection) <= 1
    /\ \A t \in InSection : rwlock = t
    /\ \A t \in Threads :
          pc[t] = "transfer" => fdt[call[t].fh].pos = call[t].offset
    /\ \A t \in Threads : outcome[t].val = outcome[t].want
    /\ files = seqfiles

\* one thread has written to one file through one handle while another
\* waits to write to the other file through another handle
C5_Witness ==
    \E t, u \in Threads :
        /\ pc[t] = "exit" /\ call[t].op = "write" /\ outcome[t].status = "ok"
        /\ pc[u] = "acquire" /\ call[u].op = "write"
        /\ call[t].fh # call[u].fh
        /\ fdt[call[u].fh].open
        /\ fdt[call[u].fh].acc \in {O_WRONLY, O_RDWR}
        /\ fdt[call[t].fh].name # fdt[call[u].fh].name

(***************************************************************************)
(* C6: on both synthetic providers, open of the base path with access      *)
(* mode O_WRONLY or O_RDWR (any other bits) fails with PermissionDenied,   *)
(* and with access mode O_RDONLY it succeeds.                              *)
(***************************************************************************)
C6_WriteIntentPermissionDenied ==
    (Answered /\ vcall.op = "open" /\ vcall.path = hello_path) =>
        /\ AccMode(vcall.flags) \in {O_WRONLY, O_RDWR} =>
              (vres.tag = "raise" /\ ErrorKind(vres) = "PermissionDenied")
        /\ AccMode(vcall.flags) = O_RDONLY => vres.tag = "ok"

(***************************************************************************)
(* C7: FormatFS getattr of '/hello' and of '/hello.<f>', f registered,     *)
(* reports st_size = the byte length of the selected payload, which is     *)
(* the length of what read(path, st_size, 0) returns.                      *)
(***************************************************************************)
C7_SizeIsPayloadLength ==
    (/\ Answered
     /\ vcall.provider = "FormatFS"
     /\ vcall.op = "getattr"
     /\ vcall.path \in FormatPaths \cup {hello_path}) =>
        /\ vres.tag = "ok"
        /\ vres.val.st_size = Len(SelectedPayload("FormatFS", vcall.path))
        /\ LET r == FormatRead(vcall.path, vres.val.st_size, 0)
           IN  r.tag = "ok" /\ Len(r.val) = vres.val.st_size

C7_Witness ==
    /\ Answered
    /\ vcall.provider = "FormatFS"
    /\ vcall.op = "getattr"
    /\ vcall.path = "/hello.json"
    /\ vres.tag = "ok"
    /\ vres.val.st_size = 29

(***************************************************************************)
(* C8: on both synthetic providers readdir('/') returns exactly '.', '..', *)
(* 'hello', and readdir of any other path fails with NotFound.             *)
(***************************************************************************)
C8_ListingIsBaseNameOnly ==
    (Answered /\ vcall.op = "readdir") =>
        IF vcall.path = "/"
        THEN vres.tag = "ok" /\ vres.val = <<".", "..", "hello">>
        ELSE vres.tag = "raise" /\ ErrorKind(vres) = "NotFound"

C8_Witness ==
    /\ Answered
    /\ vcall.provider = "FormatFS"
    /\ vcall.op = "readdir"
    /\ vcall.path = "/hello.txt"
    /\ ErrorKind(vres) = "NotFound"

(***************************************************************************)
(* C9: in FormatFS a path can be opened read-only exactly when getattr     *)
(* reports a regular file for it, exactly when read returns a payload.     *)
(***************************************************************************)
C9_OperationsAgree ==
    (/\ Answered
     /\ vcall.provider = "FormatFS"
     /\ vcall.op = "open"
     /\ AccMode(vcall.flags) = O_RDONLY) =>
        /\ vres.tag = "ok" <=> IsRegular(FormatGetattr(vcall.path))
        /\ vres.tag = "ok" <=> FormatRead(vcall.path, 1, 0).tag = "ok"

(***************************************************************************)
(* C10: a thread that has left read or write does not hold rwlock, however *)
(* the call ended, and under fair scheduling every call that has been      *)
(* dispatched returns.                                                     *)
(***************************************************************************)
C10_LockReleasedAndCallsReturn ==
    /\ [](\A t \in Threads : pc[t] = "idle" => rwlock # t)
    /\ \A t \in Threads : (pc[t] # "idle") ~> (pc[t] = "idle")

\* a call has failed and returned, and another thread holds the lock after
C10_Witness ==
    \E t, u \in Threads :
        /\ pc[t] = "idle"
        /\ outcome[t].status = "EBADF"
        /\ rwlock = u
        /\ pc[u] = "transfer"

====
